---------------------------- MODULE Spec2Model ----------------------------
(***************************************************************************)
(* Model of ogr-rust: the bit-vector state engine, the three traversal     *)
(* iterators built on it, the Golomb verifier, the ruler <-> id bijection  *)
(* and the enumeration entry points.                                       *)
(*                                                                         *)
(* A state (Vec<bool>) is a sequence of BOOLEAN; Rust index i is TLA+      *)
(* index i + 1 (see At).  A ruler (GolombRuler.marks, Vec<i128>) is a      *)
(* sequence of integers without the implied mark 0.  A usize id is the set *)
(* of the positions of its set bits, so that 64-bit values stay exact.     *)
(***************************************************************************)
EXTENDS Integers, Sequences, FiniteSets

VARIABLES
    order,      \* `order` argument of the entry points under call
    length,     \* `length` argument of the entry points under call
    call,       \* entry point being executed, or "idle"
    it,         \* the iterator the running entry point collects from
    acc,        \* rulers collected so far by the running entry point
    results,    \* per entry point: not called / returned value / panicked
    src,        \* ruler operations: what the input was ("ruler", "id", "none")
    id,         \* ruler operations: id given to from_id
    ruler,      \* ruler operations: the ruler operated on
    rid,        \* ruler operations: result of ruler.to_id()
    decoded,    \* ruler operations: from_id of the id to_id returned
    golomb,     \* ruler operations: result of ruler.is_golomb_ruler()
    st,         \* state operations: the Vec<bool> an operation is applied to
    op,         \* state operations: the operation applied, or "none"
    arg,        \* state operations: the other arguments of the operation
    ret         \* state operations: what the operation returned

vars == <<order, length, call, it, acc, results, src, id, ruler, rid, decoded, golomb,
          st, op, arg, ret>>
travVars == <<order, length, call, it, acc, results>>
rulerVars == <<src, id, ruler, rid, decoded, golomb>>
stateVars == <<st, op, arg, ret>>

-----------------------------------------------------------------------------
(* Bounds of the model *)

\* Largest `length` argument given to an entry point.
MaxLength == 6
\* Marks 1..LowMarks may appear on a ruler given to the ruler operations.
LowMarks == 7
\* Marks within HighSpan of the 64-bit boundary may appear as well.
HighSpan == 1
\* Bits 0..LowBits-1 may be set in an id given to from_id.
LowBits == 4

\* A state given to a state operation has at most MaxBits bits.
MaxBits == 5

\* Largest order asked of generate_golomb_ruler_improved.
MaxGenOrder == 9

\* Pulls made on an iterator after it has returned None.
MaxPullsAfterEnd == 2

\* Largest `order` argument: one more than any ruler of MaxLength can have.
MaxOrder == MaxLength + 2

(* Program constants *)

\* the guard of to_id one too large
MaxIdLengthOneMore == 64 + 1

\* `self.length() > 64` in to_id
MaxIdLength == 64
\* width of usize, the type of an id (64-bit target)
UsizeBits == 64

-----------------------------------------------------------------------------
(* Option<T> and a panic (an abort of the call) as values *)

Some(v) == [tag |-> "Some", val |-> v]
None == [tag |-> "None"]
Panic == [tag |-> "Panic"]
\* a call that never returns
Diverges == [tag |-> "Diverges"]
Unset == [tag |-> "Unset"]

IsSome(o) == o.tag = "Some"

\* self[i] with Rust's 0-based index
At(s, i) == s[i + 1]
\* s with s[i] = b, 0-based
Put(s, i, b) == [s EXCEPT ![i + 1] = b]

Range(s) == {s[k] : k \in 1..Len(s)}

-----------------------------------------------------------------------------
(* enumeration/state.rs: impl RulerState for Vec<bool> *)

\* total_marks that counts one implied end point only
total_marks_one_end(s) == Cardinality({k \in 1..Len(s) : s[k]}) + 1

count_marks(s) == Cardinality({k \in 1..Len(s) : s[k]})

total_marks(s) == count_marks(s) + 2

all(s) == \A k \in 1..Len(s) : s[k]

go_left(s) == Append(s, FALSE)

back_one_then_right(s) == Put(s, Len(s) - 1, TRUE)

\* backtrack that sets the first cleared bit from the right and leaves the
\* set bits it passed as they are
RECURSIVE backtrack_keep_loop(_, _)
backtrack_keep_loop(out, i) ==
    IF i < 0 THEN out
    ELSE IF At(out, i) THEN backtrack_keep_loop(out, i - 1)
    ELSE Put(out, i, TRUE)

backtrack_keeps_trailing(s) == backtrack_keep_loop(s, Len(s) - 1)

\* the backtrack loop over `(1..self.len()).rev()`: it never reaches bit 0
RECURSIVE backtrack_loop_skips_first(_, _)
backtrack_loop_skips_first(out, i) ==
    IF i < 1 THEN out
    ELSE IF At(out, i) THEN backtrack_loop_skips_first(Put(out, i, FALSE), i - 1)
    ELSE Put(out, i, TRUE)

\* the loop `for i in (0..self.len()).rev()` of backtrack, at index i
RECURSIVE backtrack_loop(_, _)
backtrack_loop(out, i) ==
    IF i < 0 THEN out
    ELSE IF At(out, i) THEN backtrack_loop(Put(out, i, FALSE), i - 1)
    ELSE Put(out, i, TRUE)

backtrack(s) == backtrack_loop(s, Len(s) - 1)

\* to_ruler that closes the ruler with the number of bits, not that plus one
RECURSIVE to_ruler_marks_short(_, _)
to_ruler_marks_short(s, idx) ==
    IF idx >= Len(s) THEN <<>>
    ELSE IF At(s, idx) THEN <<idx + 1>> \o to_ruler_marks_short(s, idx + 1)
    ELSE to_ruler_marks_short(s, idx + 1)

to_ruler_short(s) == Append(to_ruler_marks_short(s, 0), Len(s))

\* the filter_map of to_ruler over the indices idx..len-1
RECURSIVE to_ruler_marks(_, _)
to_ruler_marks(s, idx) ==
    IF idx >= Len(s) THEN <<>>
    ELSE IF At(s, idx) THEN <<idx + 1>> \o to_ruler_marks(s, idx + 1)
    ELSE to_ruler_marks(s, idx + 1)

\* to_ruler that numbers the interior positions from the other end
to_ruler_mirrored(s) ==
    Append(to_ruler_marks([k \in 1..Len(s) |-> s[Len(s) + 1 - k]], 0), Len(s) + 1)

to_ruler(s) == Append(to_ruler_marks(s, 0), Len(s) + 1)

\* the loop `while left.len() != length - 1` of next
RECURSIVE next_left_loop(_, _)
next_left_loop(left, len) ==
    IF Len(left) /= len - 1 THEN next_left_loop(go_left(left), len) ELSE left

\* next without the test `if self.all()`: at the all-set state it backtracks
next_without_end(s, len) ==
    IF len = 0 THEN Panic
    ELSE IF Len(s) > len - 1 THEN None
    ELSE IF Len(s) < len - 1 THEN Some(next_left_loop(go_left(s), len))
    ELSE IF Len(s) = 0 THEN Panic
    ELSE IF ~At(s, Len(s) - 1) THEN Some(back_one_then_right(s))
    ELSE Some(backtrack(s))

next(s, len) ==
    IF len = 0 THEN Panic                   \* `length - 1` on a usize
    ELSE IF Len(s) > len - 1 THEN None
    ELSE IF Len(s) < len - 1 THEN Some(next_left_loop(go_left(s), len))
    ELSE IF Len(s) = 0 THEN Panic           \* self[self.len() - 1]
    ELSE IF ~At(s, Len(s) - 1) THEN Some(back_one_then_right(s))
    ELSE IF all(s) THEN None
    ELSE Some(backtrack(s))

\* the loop `for i in (0..self.len()).rev()` of add_mark, at index i
RECURSIVE add_mark_loop(_, _)
add_mark_loop(s, i) ==
    IF i < 0 THEN None
    ELSE IF ~At(s, i) THEN Some(Put(s, i, TRUE))
    ELSE add_mark_loop(s, i - 1)

\* add_mark that moves the mark next to the last bit onto the last bit
\* instead of adding one
add_mark_moves_mark(s) ==
    LET r == add_mark_loop(s, Len(s) - 1)
    IN  IF IsSome(r) /\ Len(s) >= 2 /\ ~At(s, Len(s) - 1) /\ At(s, Len(s) - 2)
            THEN Some(Put(r.val, Len(s) - 2, FALSE))
        ELSE r

add_mark(s) == add_mark_loop(s, Len(s) - 1)

\* first loop of jump_back: clear the last set bit, remember its index in j
RECURSIVE jump_back_first(_, _)
jump_back_first(out, i) ==
    IF i < 0 THEN [out |-> out, j |-> 0]
    ELSE IF At(out, i) THEN [out |-> Put(out, i, FALSE), j |-> i]
    ELSE jump_back_first(out, i - 1)

\* second loop of jump_back: `for i in (0..j).rev()`
RECURSIVE jump_back_second(_, _)
jump_back_second(out, i) ==
    IF i < 0 THEN out
    ELSE IF ~At(out, i) THEN Put(out, i, TRUE)
    ELSE jump_back_second(Put(out, i, FALSE), i - 1)

\* jump_back whose second loop sets the cleared bit it finds but leaves the
\* set bits it passes as they are
RECURSIVE jump_back_second_keeps(_, _)
jump_back_second_keeps(out, i) ==
    IF i < 0 THEN out
    ELSE IF ~At(out, i) THEN Put(out, i, TRUE)
    ELSE jump_back_second_keeps(out, i - 1)

jump_back_keeps_run(s) ==
    LET f == jump_back_first(s, Len(s) - 1)
    IN  jump_back_second_keeps(f.out, f.j - 1)

jump_back(s) ==
    LET f == jump_back_first(s, Len(s) - 1)
    IN  jump_back_second(f.out, f.j - 1)

\* the termination test over one bit more: `take(order - 1)`
take_one_more(s, n) == \A k \in 1..Len(s) : k <= n + 1 => s[k]

\* the termination test on the first bit alone (`if self[0]`)
take_first_only(s, n) == n = 0 \/ s[1]

\* self.iter().take(n).all(|b| *b)
take_all(s, n) == \A k \in 1..Len(s) : k <= n => s[k]

pruned_propose_next(s, ord) ==
    IF Len(s) = 0 THEN Panic                \* self[self.len() - 1]
    ELSE IF ~At(s, Len(s) - 1) THEN
        IF total_marks(s) = ord THEN
            IF ord < 2 THEN Panic           \* `order - 2` on a usize
            ELSE IF take_all(s, ord - 2) THEN None
            ELSE Some(jump_back(s))
        ELSE add_mark(s)
    ELSE IF all(s) THEN None
    ELSE Some(backtrack(s))

\* the branch of pruned_propose_next taken on s: what it returns or calls
pruned_propose_branch(s, ord) ==
    IF Len(s) = 0 THEN "panic"
    ELSE IF ~At(s, Len(s) - 1) THEN
        IF total_marks(s) = ord THEN
            IF ord < 2 THEN "panic"
            ELSE IF take_all(s, ord - 2) THEN "none"
            ELSE "jump_back"
        ELSE "add_mark"
    ELSE IF all(s) THEN "none"
    ELSE "backtrack"

\* the loop `while next.total_marks() != order` of next_pruned; `?` passes
\* None (and a panic) on
\* next_pruned without its loop: the first proposal is returned as it is
next_pruned_loop_skipped(nxt, ord) == nxt

\* at most k passes through the body of the loop, k >= 1; the passes are
\* split in two halves so that a long walk is evaluated at a small depth
RECURSIVE next_pruned_passes(_, _, _)
next_pruned_passes(nxt, ord, k) ==
    IF ~IsSome(nxt) THEN nxt
    ELSE IF total_marks(nxt.val) = ord THEN nxt
    ELSE IF k = 1 THEN pruned_propose_next(nxt.val, ord)
    ELSE next_pruned_passes(next_pruned_passes(nxt, ord, k \div 2), ord, k - (k \div 2))

\* a loop over the 2^n states of n bits that has not ended after 2^n passes
\* has met a state twice and never ends
next_pruned_loop(nxt, ord) ==
    IF ~IsSome(nxt) THEN nxt
    ELSE LET r == next_pruned_passes(nxt, ord, 2 ^ Len(nxt.val))
         IN  IF IsSome(r) /\ total_marks(r.val) /= ord THEN Diverges ELSE r

RECURSIVE next_pruned(_, _, _)
next_pruned(s, ord, len) ==
    IF len = 0 THEN Panic                   \* `length - 1` on a usize
    ELSE IF Len(s) > len - 1 THEN None
    ELSE IF Len(s) < len - 1 THEN next_pruned(go_left(s), ord, len)
    ELSE next_pruned_loop(pruned_propose_next(s, ord), ord)

\* Vec indexing `self[i]`: the element, or an abort outside 0..len-1
Index(s, i) == IF i >= 0 /\ i < Len(s) THEN Some(At(s, i)) ELSE Panic

\* contains that reads `self[value]`
contains_result_unshifted(s, value) ==
    LET len == Len(s) + 1
    IN  IF value < 0 THEN Some(FALSE)
        ELSE IF value = 0 \/ value = len THEN Some(TRUE)
        ELSE IF value > len THEN Some(FALSE)
        ELSE Index(s, value)

\* RulerState::contains, with the abort an index out of bounds would cause
contains_result(s, value) ==
    LET len == Len(s) + 1
    IN  IF value < 0 THEN Some(FALSE)
        ELSE IF value = 0 \/ value = len THEN Some(TRUE)
        ELSE IF value > len THEN Some(FALSE)
        ELSE Index(s, value - 1)

contains(s, value) == contains_result(s, value).val

\* rulers/mod.rs
dist(a, b) == IF a - b < 0 THEN b - a ELSE a - b

\* the depth-1 loop run over every mark, the last one included
RECURSIVE order_1_loop_with_last(_, _, _, _)
order_1_loop_with_last(s, marks, base, k) ==
    IF k >= Len(marks) THEN TRUE
    ELSE IF contains(s, dist(At(marks, k), base)) THEN FALSE
    ELSE order_1_loop_with_last(s, marks, base, k + 1)

\* the loop `for m in &ruler.marks[0..(ruler.marks.len() - 1)]`, at position k
RECURSIVE order_1_loop(_, _, _, _)
order_1_loop(s, marks, base, k) ==
    IF k >= Len(marks) - 1 THEN TRUE
    ELSE IF contains(s, dist(At(marks, k), base)) THEN FALSE
    ELSE order_1_loop(s, marks, base, k + 1)

is_golomb_ruler_order_1(s) ==
    LET marks == to_ruler(s)
        base == At(marks, Len(marks) - 1)
    IN  IF Len(marks) = 0 \/ Len(marks) = 1 THEN TRUE
        ELSE order_1_loop(s, marks, base, 0)

\* the rejection as an `if`: after one rejected state the next one is taken
\* unchecked
depth_1_loop_once(nxt, ord, len) ==
    IF ~IsSome(nxt) THEN nxt
    ELSE IF ~is_golomb_ruler_order_1(nxt.val) THEN next_pruned(nxt.val, ord, len)
    ELSE nxt

\* the loop `while !next_pruned.is_golomb_ruler_order_1()`
RECURSIVE depth_1_loop(_, _, _)
depth_1_loop(nxt, ord, len) ==
    IF ~IsSome(nxt) THEN nxt
    ELSE IF ~is_golomb_ruler_order_1(nxt.val)
        THEN depth_1_loop(next_pruned(nxt.val, ord, len), ord, len)
    ELSE nxt

next_golomb_depth_1(s, ord, len) == depth_1_loop(next_pruned(s, ord, len), ord, len)

-----------------------------------------------------------------------------
(* usize arithmetic on ids; an id is the set of positions of its set bits *)

Max(S) == CHOOSE x \in S : \A y \in S : y <= x

Overflow == [tag |-> "Overflow"]

usize_zero == {}
usize_one == {0}

\* id.ilog2(), for id /= 0
ilog2(x) == Max(x)

\* 1 << amt: overflows unless 0 <= amt < usize::BITS
shl_one(amt) == IF amt < 0 \/ amt >= UsizeBits THEN Overflow ELSE Some({amt})

\* x & y
bit_and(x, y) == x \cap y

\* x + 2^k, carrying; overflows when the carry leaves the word
RECURSIVE add_pow2(_, _)
add_pow2(x, k) ==
    IF k >= UsizeBits THEN Overflow
    ELSE IF k \in x THEN add_pow2(x \ {k}, k + 1)
    ELSE Some(x \cup {k})

-----------------------------------------------------------------------------
(* rulers/ruler.rs and rulers/golomb_ruler.rs *)

\* GolombRuler::new
GolombRuler_new(marks) == marks

\* order that leaves out the implied mark 0
ruler_order_without_zero(marks) == Len(marks)

\* GolombRuler::order
ruler_order(marks) == Len(marks) + 1

\* GolombRuler::length
ruler_length(marks) == IF Len(marks) = 0 THEN 0 ELSE At(marks, Len(marks) - 1)

\* GolombRuler::as_set
as_set(marks) == Range(marks)

\* the loop `for m in &self.marks[0..(self.marks.len() - 1)]` at index k
RECURSIVE ruler_order_1_loop(_, _, _, _)
ruler_order_1_loop(marks, set, base, k) ==
    IF k >= Len(marks) - 1 THEN TRUE
    ELSE IF dist(At(marks, k), base) \in set THEN FALSE
    ELSE ruler_order_1_loop(marks, set, base, k + 1)

\* the loop started at the second mark
GolombRuler_is_golomb_ruler_order_1_skip_first(marks) ==
    IF Len(marks) = 0 THEN Panic
    ELSE Some(ruler_order_1_loop(marks, as_set(marks), ruler_length(marks), 1))

\* GolombRuler::is_golomb_ruler_order_1 (rulers/golomb_ruler.rs);
\* `self.marks.len() - 1` on a usize aborts for a ruler without marks
GolombRuler_is_golomb_ruler_order_1(marks) ==
    IF Len(marks) = 0 THEN Panic
    ELSE Some(ruler_order_1_loop(marks, as_set(marks), ruler_length(marks), 0))

\* Ruler::is_golomb_ruler: lhs at index i; j = i is the step `diff = *lhs`,
\* j > i the step of the inner loop at rhs index j
RECURSIVE is_golomb_loop(_, _, _, _)
is_golomb_loop(sequence, i, j, distances) ==
    IF i >= Len(sequence) THEN TRUE
    ELSE IF j >= Len(sequence) THEN is_golomb_loop(sequence, i + 1, i + 1, distances)
    ELSE LET diff == IF j = i THEN At(sequence, i)
                     ELSE dist(At(sequence, i), At(sequence, j))
         IN  IF diff \in distances THEN FALSE
             ELSE is_golomb_loop(sequence, i, j + 1, distances \cup {diff})

\* the verifier without the distances to the implied mark 0
RECURSIVE is_golomb_loop_no_zero(_, _, _, _)
is_golomb_loop_no_zero(sequence, i, j, distances) ==
    IF i >= Len(sequence) THEN TRUE
    ELSE IF j >= Len(sequence) THEN is_golomb_loop_no_zero(sequence, i + 1, i + 2, distances)
    ELSE LET diff == dist(At(sequence, i), At(sequence, j))
         IN  IF diff \in distances THEN FALSE
             ELSE is_golomb_loop_no_zero(sequence, i, j + 1, distances \cup {diff})

Ruler_is_golomb_ruler_no_zero(sequence) == is_golomb_loop_no_zero(sequence, 0, 1, {})

Ruler_is_golomb_ruler(sequence) == is_golomb_loop(sequence, 0, 0, {})

\* GolombRuler::is_golomb_ruler
is_golomb_ruler(marks) == Ruler_is_golomb_ruler(marks)

\* to_state that writes `state[*m as usize]`
to_state_unshifted(marks) ==
    LET l == ruler_length(marks)
        inner == {At(marks, k) : k \in 0..(Len(marks) - 2)}
    IN  IF ruler_order(marks) = 1 \/ l = 1 THEN Some(<<>>)
        ELSE IF l < 1 \/ \E m \in inner : m < 0 \/ m > l - 2 THEN Panic
        ELSE Some([k \in 1..(l - 1) |-> (k - 1) \in inner])

\* GolombRuler::to_state; an index outside the vector panics
to_state(marks) ==
    LET l == ruler_length(marks)
        inner == {At(marks, k) : k \in 0..(Len(marks) - 2)}
    IN  IF ruler_order(marks) = 1 \/ l = 1 THEN Some(<<>>)
        ELSE IF l < 1 \/ \E m \in inner : m < 1 \/ m > l - 1 THEN Panic
        ELSE Some([k \in 1..(l - 1) |-> k \in inner])

\* GolombRuler::next_pruned (enumeration/state.rs):
\* `Some(self.to_state().next_pruned(order, length)?.to_ruler())`
GolombRuler_next_pruned(marks, ord, len) ==
    LET s == to_state(marks)
    IN  IF ~IsSome(s) THEN Panic
        ELSE LET n == next_pruned(s.val, ord, len)
             IN  IF IsSome(n) THEN Some(to_ruler(n.val)) ELSE n

\* to_id_loop, declared ahead for the variant of to_id below
RECURSIVE to_id_loop(_, _, _, _)

\* to_id with the sentinel bit at position length instead of length - 1
to_id_sentinel_at_length(marks) ==
    IF Len(marks) = 0 THEN Some(usize_zero)
    ELSE IF ruler_length(marks) = 1 THEN Some(usize_one)
    ELSE IF ruler_length(marks) > MaxIdLength THEN None
    ELSE LET val == shl_one(ruler_length(marks))
             state == to_state(marks)
         IN  IF ~IsSome(val) THEN val
             ELSE IF ~IsSome(state) THEN state
             ELSE to_id_loop(marks, state.val, val, 0)

\* the for_each of to_id over marks[0..len-1], at position k
to_id_loop(marks, state, val, k) ==
    IF ~IsSome(val) THEN val
    ELSE IF k >= Len(marks) - 1 THEN val
    ELSE LET m == At(marks, k)
         IN  IF At(state, m - 1)
             THEN LET bit == shl_one(m - 1)
                  IN  IF ~IsSome(bit) THEN bit
                      ELSE to_id_loop(marks, state, add_pow2(val.val, m - 1), k + 1)
             ELSE to_id_loop(marks, state, val, k + 1)

\* to_id that starts from 0 instead of `1 << (length - 1)`
to_id_without_sentinel(marks) ==
    IF Len(marks) = 0 THEN Some(usize_zero)
    ELSE IF ruler_length(marks) = 1 THEN Some(usize_one)
    ELSE IF ruler_length(marks) > MaxIdLength THEN None
    ELSE LET val == Some(usize_zero)
             state == to_state(marks)
         IN  IF ~IsSome(state) THEN state
             ELSE to_id_loop(marks, state.val, val, 0)

\* GolombRuler::to_id
to_id(marks) ==
    IF Len(marks) = 0 THEN Some(usize_zero)
    ELSE IF ruler_length(marks) = 1 THEN Some(usize_one)
    ELSE IF ruler_length(marks) > MaxIdLength THEN None
    ELSE LET val == shl_one(ruler_length(marks) - 1)
             state == to_state(marks)
         IN  IF ~IsSome(val) THEN val
             ELSE IF ~IsSome(state) THEN state
             ELSE to_id_loop(marks, state.val, val, 0)

\* from_id that takes ilog2(id) for the length, without the + 1
from_id_short(x) ==
    IF x = usize_zero THEN <<>>
    ELSE IF x = usize_one THEN <<1>>
    ELSE LET len == ilog2(x)
             state == [k \in 1..(len - 1) |->
                          LET mask == {k - 1} IN bit_and(x, mask) = mask]
         IN  to_ruler(state)

\* the mask one bit too high: `1 << (i + 1)`
from_id_mask_shifted(x) ==
    IF x = usize_zero THEN <<>>
    ELSE IF x = usize_one THEN <<1>>
    ELSE LET len == ilog2(x) + 1
             state == [k \in 1..(len - 1) |->
                          LET mask == {k} IN bit_and(x, mask) = mask]
         IN  to_ruler(state)

\* GolombRuler::from_id (enumeration/state.rs)
from_id(x) ==
    IF x = usize_zero THEN <<>>
    ELSE IF x = usize_one THEN <<1>>
    ELSE LET len == ilog2(x) + 1
             state == [k \in 1..(len - 1) |->
                          LET mask == {k - 1} IN bit_and(x, mask) = mask]
         IN  to_ruler(state)

-----------------------------------------------------------------------------
(* enumeration/iterators.rs: construction of the three iterators.  The     *)
(* pre-state has length - 2 bits; `length - 2` on a usize aborts the call  *)
(* when length < 2.                                                        *)

NoIter == [kind |-> "none"]

\* a pre-state as long as a full state: `vec![false; length - 1]`
pre_state_full(len) == [k \in 1..(len - 1) |-> FALSE]

pre_state(len) == [k \in 1..(len - 2) |-> FALSE]

RulerIterator_new(len) ==
    IF len < 2 THEN Panic
    ELSE Some([kind |-> "RulerIterator", state |-> pre_state(len), length |-> len])

GolombRulerPrunedIterator_new(ord, len) ==
    IF len < 2 THEN Panic
    ELSE Some([kind |-> "GolombRulerPrunedIterator", state |-> pre_state(len),
               order |-> ord, length |-> len])

GolombRulerDepthIterator_new(ord, len, depth) ==
    IF len < 2 THEN Panic
    ELSE Some([kind |-> "GolombRulerDepthIterator", state |-> pre_state(len),
               order |-> ord, length |-> len, depth |-> depth])

\* Iterator::next of each iterator: the next state, None at the end
RulerIterator_next_state(i) == next(i.state, i.length)

GolombRulerPrunedIterator_next_state(i) == next_pruned(i.state, i.order, i.length)

GolombRulerDepthIterator_next_state(i) == next_golomb_depth_1(i.state, i.order, i.length)

-----------------------------------------------------------------------------
(* enumeration/mod.rs: the entry points.  An entry point either returns at *)
(* once, aborts, or builds an iterator that `collect()` then drains.       *)

EntryPoints == {"enumerate_rulers_with_length", "enumerate_pruned_rulers",
                "enumerate_golomb_rulers_pruned_with_length",
                "enumerate_golomb_rulers_depth_with_length",
                "enumerate_rulers", "enumerate_rulers_with_order",
                "enumerate_golomb_rulers", "enumerate_golomb_rulers_with_length",
                "enumerate_golomb_rulers_pruned"}

\* the depth argument the tests pass; the iterator stores and never reads it
Depth == 1

\* what the call of an entry point does first: [ret |-> returned value],
\* or the iterator it goes on to collect
enumerate_rulers_with_length_begin(len) ==
    IF len = 0 THEN [ret |-> Some(<<from_id(usize_zero)>>)]
    ELSE IF len = 1 THEN [ret |-> Some(<<from_id(usize_one)>>)]
    ELSE [iter |-> RulerIterator_new(len)]

enumerate_pruned_rulers_begin(ord, len) ==
    IF ord = 2 THEN [ret |-> Some(<<GolombRuler_new(<<len>>)>>)]
    ELSE [iter |-> GolombRulerPrunedIterator_new(ord, len)]

enumerate_golomb_rulers_pruned_with_length_begin(ord, len) ==
    [iter |-> GolombRulerPrunedIterator_new(ord, len)]

enumerate_golomb_rulers_depth_with_length_begin(ord, len, depth) ==
    [iter |-> GolombRulerDepthIterator_new(ord, len, depth)]

\* the state after entry point e has begun with b
Begin(e, b) ==
    IF "ret" \in DOMAIN b THEN
        /\ results' = [results EXCEPT ![e] = b.ret]
        /\ UNCHANGED <<call, it, acc>>
    ELSE IF ~IsSome(b.iter) THEN
        /\ results' = [results EXCEPT ![e] = Panic]
        /\ UNCHANGED <<call, it, acc>>
    ELSE
        /\ call' = e
        /\ it' = b.iter.val
        /\ acc' = <<>>
        /\ UNCHANGED results

CanCall(e) == call = "idle" /\ results[e] = Unset

enumerate_rulers_with_length ==
    /\ CanCall("enumerate_rulers_with_length")
    /\ Begin("enumerate_rulers_with_length", enumerate_rulers_with_length_begin(length))
    /\ UNCHANGED <<order, length, rulerVars, stateVars>>

enumerate_pruned_rulers ==
    /\ CanCall("enumerate_pruned_rulers")
    /\ Begin("enumerate_pruned_rulers", enumerate_pruned_rulers_begin(order, length))
    /\ UNCHANGED <<order, length, rulerVars, stateVars>>

enumerate_golomb_rulers_pruned_with_length ==
    /\ CanCall("enumerate_golomb_rulers_pruned_with_length")
    /\ Begin("enumerate_golomb_rulers_pruned_with_length",
             enumerate_golomb_rulers_pruned_with_length_begin(order, length))
    /\ UNCHANGED <<order, length, rulerVars, stateVars>>

enumerate_golomb_rulers_depth_with_length ==
    /\ CanCall("enumerate_golomb_rulers_depth_with_length")
    /\ Begin("enumerate_golomb_rulers_depth_with_length",
             enumerate_golomb_rulers_depth_with_length_begin(order, length, Depth))
    /\ UNCHANGED <<order, length, rulerVars, stateVars>>

\* what an entry point returns once it has collected rulers: the filter it
\* applies to them, if it has one
after_collect(e, ord, len, rulers) ==
    IF e = "enumerate_rulers_with_order"
        THEN SelectSeq(rulers, LAMBDA r : ruler_order(r) = ord)
    ELSE IF e = "enumerate_golomb_rulers"
        THEN SelectSeq(rulers, LAMBDA r : ruler_order(r) = ord /\ is_golomb_ruler(r))
    ELSE IF e = "enumerate_golomb_rulers_with_length"
        THEN SelectSeq(rulers, LAMBDA r : /\ ruler_order(r) = ord
                                          /\ is_golomb_ruler(r)
                                          /\ ruler_length(r) = len)
    ELSE IF e = "enumerate_golomb_rulers_pruned"
        THEN SelectSeq(rulers, LAMBDA r : is_golomb_ruler(r))
    ELSE rulers

\* one pull of `collect()`: Iterator::next stores the next state and yields
\* its ruler; at None the iterator is left as it is and the entry point
\* returns what it collected
Pull(nxt) ==
    IF IsSome(nxt) THEN
        /\ it' = [it EXCEPT !.state = nxt.val]
        /\ acc' = Append(acc, to_ruler(nxt.val))
        /\ UNCHANGED <<call, results>>
    ELSE
        /\ results' = [results EXCEPT ![call] =
                          IF nxt = None THEN Some(after_collect(call, order, length, acc))
                          ELSE Panic]
        /\ call' = "idle"
        /\ it' = NoIter
        /\ acc' = <<>>

RulerIterator_next ==
    /\ call /= "idle"
    /\ it.kind = "RulerIterator"
    /\ Pull(RulerIterator_next_state(it))
    /\ UNCHANGED <<order, length, rulerVars, stateVars>>

GolombRulerPrunedIterator_next ==
    /\ call /= "idle"
    /\ it.kind = "GolombRulerPrunedIterator"
    /\ Pull(GolombRulerPrunedIterator_next_state(it))
    /\ UNCHANGED <<order, length, rulerVars, stateVars>>

GolombRulerDepthIterator_next ==
    /\ call /= "idle"
    /\ it.kind = "GolombRulerDepthIterator"
    /\ Pull(GolombRulerDepthIterator_next_state(it))
    /\ UNCHANGED <<order, length, rulerVars, stateVars>>

NoStateOp ==
    /\ st = <<>>
    /\ op = "none"
    /\ arg = <<>>
    /\ ret = Unset

NoRulerOp ==
    /\ src = "none"
    /\ id = usize_zero
    /\ ruler = Unset
    /\ rid = Unset
    /\ decoded = Unset
    /\ golomb = Unset

Init ==
    /\ order \in 0..MaxOrder
    /\ length \in 0..MaxLength
    /\ call = "idle"
    /\ it = NoIter
    /\ acc = <<>>
    /\ results = [e \in EntryPoints |-> Unset]
    /\ NoRulerOp
    /\ NoStateOp

Next ==
    \/ enumerate_rulers_with_length
    \/ enumerate_pruned_rulers
    \/ enumerate_golomb_rulers_pruned_with_length
    \/ enumerate_golomb_rulers_depth_with_length
    \/ RulerIterator_next
    \/ GolombRulerPrunedIterator_next
    \/ GolombRulerDepthIterator_next

Spec == Init /\ [][Next]_vars

-----------------------------------------------------------------------------
(* enumeration/mod.rs: the entry points over every length up to a maximum. *)
(* `(2..max_length + 1).flat_map(|length| RulerIterator::new(length))` is  *)
(* an iterator that holds the next length of the range (cur), the end of   *)
(* the range and the RulerIterator it is draining (inner).                 *)

\* the range one too short: `2..max_length`
flat_map_rulers_short(max_length) ==
    [kind |-> "FlatMap", cur |-> 2, end |-> max_length, inner |-> NoIter,
     make |-> "RulerIterator", order |-> 0]

\* `make` names the iterator the closure builds for a length, `order` is the
\* order the closure captures (unused by RulerIterator::new)
flat_map_rulers(max_length) ==
    [kind |-> "FlatMap", cur |-> 2, end |-> max_length + 1, inner |-> NoIter,
     make |-> "RulerIterator", order |-> 0]

\* `(2..max_length + 1).flat_map(|length| GolombRulerPrunedIterator::new(order, length))`
flat_map_pruned(ord, max_length) ==
    [kind |-> "FlatMap", cur |-> 2, end |-> max_length + 1, inner |-> NoIter,
     make |-> "GolombRulerPrunedIterator", order |-> ord]

\* the closure of the flat_map applied to a length
flat_map_make(i, len) ==
    IF i.make = "RulerIterator" THEN RulerIterator_new(len)
    ELSE GolombRulerPrunedIterator_new(i.order, len)

\* Iterator::next of the inner iterator
inner_next_state(inner) ==
    IF inner.kind = "RulerIterator" THEN RulerIterator_next_state(inner)
    ELSE GolombRulerPrunedIterator_next_state(inner)

\* FlatMap::next: pull the inner iterator; when it ends drop it, build the
\* one of the next length of the range and go on; None when the range ends.
\* [iter |-> the iterator afterwards, item |-> what the pull returned]
RECURSIVE flat_map_next(_)
flat_map_next(i) ==
    IF i.inner /= NoIter THEN
        LET n == inner_next_state(i.inner)
        IN  IF IsSome(n)
                THEN [iter |-> [i EXCEPT !.inner = [i.inner EXCEPT !.state = n.val]],
                      item |-> Some(to_ruler(n.val))]
            ELSE IF n = None THEN flat_map_next([i EXCEPT !.inner = NoIter])
            ELSE [iter |-> i, item |-> Panic]
    ELSE IF i.cur < i.end THEN
        LET built == flat_map_make(i, i.cur)
        IN  IF IsSome(built)
                THEN flat_map_next([i EXCEPT !.cur = i.cur + 1, !.inner = built.val])
            ELSE [iter |-> i, item |-> Panic]
    ELSE [iter |-> i, item |-> None]

enumerate_rulers_begin(max_length) == [iter |-> Some(flat_map_rulers(max_length))]

\* enumerate_rulers_with_order calls enumerate_rulers(length) first
enumerate_rulers_with_order_begin(ord, len) == enumerate_rulers_begin(len)

enumerate_rulers ==
    /\ CanCall("enumerate_rulers")
    /\ Begin("enumerate_rulers", enumerate_rulers_begin(length))
    /\ UNCHANGED <<order, length, rulerVars, stateVars>>

enumerate_rulers_with_order ==
    /\ CanCall("enumerate_rulers_with_order")
    /\ Begin("enumerate_rulers_with_order", enumerate_rulers_with_order_begin(order, length))
    /\ UNCHANGED <<order, length, rulerVars, stateVars>>

\* one pull of `collect()` from the flat_map iterator
FlatMap_next ==
    /\ call /= "idle"
    /\ it.kind = "FlatMap"
    /\ LET n == flat_map_next(it)
       IN  IF IsSome(n.item) THEN
               /\ it' = n.iter
               /\ acc' = Append(acc, n.item.val)
               /\ UNCHANGED <<call, results>>
           ELSE
               /\ results' = [results EXCEPT ![call] =
                                 IF n.item = None
                                     THEN Some(after_collect(call, order, length, acc))
                                 ELSE Panic]
               /\ call' = "idle"
               /\ it' = NoIter
               /\ acc' = <<>>
    /\ UNCHANGED <<order, length, rulerVars, stateVars>>

EnumNext ==
    \/ enumerate_rulers
    \/ enumerate_rulers_with_order
    \/ enumerate_rulers_with_length
    \/ enumerate_pruned_rulers
    \/ FlatMap_next
    \/ RulerIterator_next
    \/ GolombRulerPrunedIterator_next

EnumSpec == Init /\ [][EnumNext]_vars

-----------------------------------------------------------------------------
(* enumeration/mod.rs: the entry points that filter by the Golomb verifier *)

enumerate_golomb_rulers_begin(ord, max_length) ==
    [iter |-> Some(flat_map_rulers(max_length))]

enumerate_golomb_rulers_with_length_begin(ord, len) ==
    [iter |-> RulerIterator_new(len)]

enumerate_golomb_rulers_pruned_begin(ord, max_length) ==
    [iter |-> Some(flat_map_pruned(ord, max_length))]

enumerate_golomb_rulers ==
    /\ CanCall("enumerate_golomb_rulers")
    /\ Begin("enumerate_golomb_rulers", enumerate_golomb_rulers_begin(order, length))
    /\ UNCHANGED <<order, length, rulerVars, stateVars>>

enumerate_golomb_rulers_with_length ==
    /\ CanCall("enumerate_golomb_rulers_with_length")
    /\ Begin("enumerate_golomb_rulers_with_length",
             enumerate_golomb_rulers_with_length_begin(order, length))
    /\ UNCHANGED <<order, length, rulerVars, stateVars>>

enumerate_golomb_rulers_pruned ==
    /\ CanCall("enumerate_golomb_rulers_pruned")
    /\ Begin("enumerate_golomb_rulers_pruned",
             enumerate_golomb_rulers_pruned_begin(order, length))
    /\ UNCHANGED <<order, length, rulerVars, stateVars>>

GolombNext ==
    \/ enumerate_golomb_rulers
    \/ enumerate_golomb_rulers_with_length
    \/ enumerate_golomb_rulers_pruned
    \/ FlatMap_next
    \/ RulerIterator_next

GolombSpec == Init /\ [][GolombNext]_vars

-----------------------------------------------------------------------------
(* enumeration/iterators.rs: one iterator pulled by its owner, also after  *)
(* it has returned None.  `it` is the iterator, `ret` what the last pull   *)
(* returned, `acc` the rulers yielded so far, `arg` counts the pulls made  *)
(* after the first None.                                                   *)

\* Iterator::next that starts over when the sequence has ended
Iterator_next_restarts(i, nxt) ==
    IF IsSome(nxt)
        THEN [iter |-> [i EXCEPT !.state = nxt.val], item |-> Some(to_ruler(nxt.val))]
    ELSE [iter |-> [i EXCEPT !.state = pre_state(i.length)], item |-> nxt]

\* the body shared by the three Iterator::next:
\* `self.state = next_state?; Some(self.state.to_ruler())`; the `?` returns
\* None before the assignment
Iterator_next(i, nxt) ==
    IF IsSome(nxt)
        THEN [iter |-> [i EXCEPT !.state = nxt.val], item |-> Some(to_ruler(nxt.val))]
    ELSE [iter |-> i, item |-> nxt]

IterInit ==
    /\ order \in 0..MaxOrder
    /\ length \in 2..MaxLength
    /\ call = "idle"
    /\ it \in {RulerIterator_new(length).val,
               GolombRulerPrunedIterator_new(order, length).val,
               GolombRulerDepthIterator_new(order, length, Depth).val}
    /\ acc = <<>>
    /\ results = [e \in EntryPoints |-> Unset]
    /\ NoRulerOp
    /\ st = <<>>
    /\ op = "Iterator::next"
    /\ arg = [after_end |-> 0]
    /\ ret = Unset

\* one call of it.next() by the owner of the iterator
Owner_pull(nxt) ==
    LET n == Iterator_next(it, nxt)
    IN  /\ IsSome(n.item) \/ arg.after_end < MaxPullsAfterEnd
        /\ it' = n.iter
        /\ ret' = n.item
        /\ acc' = IF IsSome(n.item) THEN Append(acc, n.item.val) ELSE acc
        /\ arg' = IF ret = None THEN [after_end |-> arg.after_end + 1] ELSE arg
        /\ UNCHANGED <<order, length, call, results, rulerVars, st, op>>

RulerIterator_pull ==
    /\ op = "Iterator::next"
    /\ it.kind = "RulerIterator"
    /\ Owner_pull(RulerIterator_next_state(it))

GolombRulerPrunedIterator_pull ==
    /\ op = "Iterator::next"
    /\ it.kind = "GolombRulerPrunedIterator"
    /\ Owner_pull(GolombRulerPrunedIterator_next_state(it))

GolombRulerDepthIterator_pull ==
    /\ op = "Iterator::next"
    /\ it.kind = "GolombRulerDepthIterator"
    /\ Owner_pull(GolombRulerDepthIterator_next_state(it))

IterNext ==
    \/ RulerIterator_pull
    \/ GolombRulerPrunedIterator_pull
    \/ GolombRulerDepthIterator_pull

IterSpec == IterInit /\ [][IterNext]_vars

-----------------------------------------------------------------------------
(* The value-level operations on one ruler: to_id, from_id and the Golomb  *)
(* verifier, applied to a ruler given by the caller or decoded from an id. *)

Min(S) == CHOOSE x \in S : \A y \in S : x <= y

\* the strictly increasing sequence of the elements of S
RECURSIVE SortedSeq(_)
SortedSeq(S) == IF S = {} THEN <<>> ELSE <<Min(S)>> \o SortedSeq(S \ {Min(S)})

\* marks a given ruler may carry: small ones, and ones around the largest
\* length an id can hold
MarkPool == (1..LowMarks) \cup ((MaxIdLength - HighSpan)..(MaxIdLength + HighSpan))

\* bits a given id may have set: low ones, and the topmost of the word
BitPool == (0..(LowBits - 1)) \cup ((UsizeBits - 1 - HighSpan)..(UsizeBits - 1))

RulerInit ==
    /\ order = 0
    /\ length = 0
    /\ call = "idle"
    /\ it = NoIter
    /\ acc = <<>>
    /\ results = [e \in EntryPoints |-> Unset]
    /\ NoStateOp
    /\ rid = Unset
    /\ decoded = Unset
    /\ golomb = Unset
    /\ \/ /\ src = "ruler"
          /\ id = usize_zero
          /\ \E S \in SUBSET MarkPool : ruler = Some(SortedSeq(S))
       \/ /\ src = "id"
          /\ id \in SUBSET BitPool
          /\ ruler = Unset

\* GolombRuler::from_id(id)
FromId ==
    /\ src = "id"
    /\ ruler = Unset
    /\ ruler' = Some(from_id(id))
    /\ UNCHANGED <<travVars, stateVars, src, id, rid, decoded, golomb>>

\* ruler.to_id()
ToId ==
    /\ IsSome(ruler)
    /\ rid = Unset
    /\ rid' = to_id(ruler.val)
    /\ UNCHANGED <<travVars, stateVars, src, id, ruler, decoded, golomb>>

\* GolombRuler::from_id(ruler.to_id().unwrap())
Decode ==
    /\ IsSome(rid)
    /\ decoded = Unset
    /\ decoded' = Some(from_id(rid.val))
    /\ UNCHANGED <<travVars, stateVars, src, id, ruler, rid, golomb>>

\* ruler.is_golomb_ruler()
IsGolomb ==
    /\ IsSome(ruler)
    /\ golomb = Unset
    /\ golomb' = Some(is_golomb_ruler(ruler.val))
    /\ UNCHANGED <<travVars, stateVars, src, id, ruler, rid, decoded>>

\* ruler.is_golomb_ruler_order_1()
IsGolombOrder1 ==
    /\ IsSome(ruler)
    /\ op = "none"
    /\ op' = "is_golomb_ruler_order_1"
    /\ ret' = GolombRuler_is_golomb_ruler_order_1(ruler.val)
    /\ UNCHANGED <<travVars, rulerVars, st, arg>>

\* ruler.to_state().is_golomb_ruler_order_1(): the state version of the check
to_state_is_golomb_ruler_order_1(marks) ==
    LET s == to_state(marks)
    IN  IF IsSome(s) THEN Some(is_golomb_ruler_order_1(s.val)) ELSE Panic

\* ruler.to_state().is_golomb_ruler_order_1(), called after the ruler version
\* has returned; `arg` keeps what the ruler version returned
StateIsGolombOrder1 ==
    /\ IsSome(ruler)
    /\ op = "is_golomb_ruler_order_1"
    /\ IsSome(ret)
    /\ op' = "to_state.is_golomb_ruler_order_1"
    /\ arg' = [ruler_version |-> ret]
    /\ ret' = to_state_is_golomb_ruler_order_1(ruler.val)
    /\ UNCHANGED <<travVars, rulerVars, st>>

RulerNext ==
    \/ FromId
    \/ ToId
    \/ Decode
    \/ IsGolomb
    \/ IsGolombOrder1
    \/ StateIsGolombOrder1

RulerSpec == RulerInit /\ [][RulerNext]_vars

-----------------------------------------------------------------------------
(* The operations of RulerState (enumeration/state.rs) applied once to a   *)
(* given bit vector: `st` is the vector, `op` the operation, `arg` its     *)
(* other arguments and `ret` what it returned.                             *)

\* every Vec<bool> of n bits
BitVectors(n) == [1..n -> BOOLEAN]

\* a value returned by an operation whose return type is not an Option
Returned(v) == [tag |-> "Returned", val |-> v]

StateInit ==
    /\ order = 0
    /\ length = 0
    /\ call = "idle"
    /\ it = NoIter
    /\ acc = <<>>
    /\ results = [e \in EntryPoints |-> Unset]
    /\ NoRulerOp
    /\ \E n \in 0..MaxBits : st \in BitVectors(n)
    /\ op = "none"
    /\ arg = <<>>
    /\ ret = Unset

\* state.contains(value)
State_contains ==
    /\ op = "none"
    /\ \E value \in (0 - 2)..(MaxBits + 3) :
          /\ arg' = [value |-> value]
          /\ ret' = contains_result(st, value)
    /\ op' = "contains"
    /\ UNCHANGED <<travVars, rulerVars, st>>

\* state.backtrack()
State_backtrack ==
    /\ op = "none"
    /\ op' = "backtrack"
    /\ ret' = Returned(backtrack(st))
    /\ UNCHANGED <<travVars, rulerVars, st, arg>>

\* state.next(length)
State_next ==
    /\ op = "none"
    /\ \E len \in 0..(MaxBits + 1) :
          /\ arg' = [length |-> len]
          /\ ret' = next(st, len)
    /\ op' = "next"
    /\ UNCHANGED <<travVars, rulerVars, st>>

\* state.pruned_propose_next(order)
State_pruned_propose_next ==
    /\ op = "none"
    /\ \E ord \in 0..(MaxBits + 2) :
          /\ arg' = [order |-> ord]
          /\ ret' = pruned_propose_next(st, ord)
    /\ op' = "pruned_propose_next"
    /\ UNCHANGED <<travVars, rulerVars, st>>

\* state.jump_back()
State_jump_back ==
    /\ op = "none"
    /\ op' = "jump_back"
    /\ ret' = Returned(jump_back(st))
    /\ UNCHANGED <<travVars, rulerVars, st, arg>>

\* state.next_pruned(order, length)
State_next_pruned ==
    /\ op = "none"
    /\ \E ord \in 0..(MaxBits + 2), len \in 0..(MaxBits + 2) :
          /\ arg' = [order |-> ord, length |-> len]
          /\ ret' = next_pruned(st, ord, len)
    /\ op' = "next_pruned"
    /\ UNCHANGED <<travVars, rulerVars, st>>

\* the rulers whose state is st: to_ruler(st), and for the empty state the
\* ruler without marks as well
RulersOfState(s) == {to_ruler(s)} \cup (IF s = <<>> THEN {GolombRuler_new(<<>>)} ELSE {})

\* ruler.next_pruned(order, length)
Ruler_next_pruned ==
    /\ op = "none"
    /\ \E r \in RulersOfState(st), ord \in 0..(MaxBits + 2), len \in 0..(MaxBits + 2) :
          /\ arg' = [ruler |-> r, order |-> ord, length |-> len]
          /\ ret' = GolombRuler_next_pruned(r, ord, len)
    /\ op' = "GolombRuler_next_pruned"
    /\ UNCHANGED <<travVars, rulerVars, st>>

\* state.to_ruler().to_state()
State_to_ruler_to_state ==
    /\ op = "none"
    /\ op' = "to_ruler_to_state"
    /\ arg' = [ruler |-> to_ruler(st)]
    /\ ret' = to_state(to_ruler(st))
    /\ UNCHANGED <<travVars, rulerVars, st>>

\* ruler.to_state().to_ruler()
Ruler_to_state_to_ruler ==
    /\ op = "none"
    /\ op' = "to_state_to_ruler"
    /\ \E r \in RulersOfState(st) :
          /\ arg' = [ruler |-> r]
          /\ ret' = LET s == to_state(r)
                    IN  IF IsSome(s) THEN Some(to_ruler(s.val)) ELSE Panic
    /\ UNCHANGED <<travVars, rulerVars, st>>

StateNext ==
    \/ State_to_ruler_to_state
    \/ Ruler_to_state_to_ruler
    \/ State_next_pruned
    \/ Ruler_next_pruned
    \/ State_contains
    \/ State_backtrack
    \/ State_next
    \/ State_pruned_propose_next
    \/ State_jump_back

StateSpec == StateInit /\ [][StateNext]_vars

-----------------------------------------------------------------------------
(* rulers/mod.rs: generate_golomb_ruler_improved(order).  The call recurses *)
(* down to order 3 and then, level by level, runs the candidate loop; one  *)
(* step of the model is one iteration of that loop.  `order` is the order  *)
(* asked for, `st` is prev, `arg` holds the level being built and the      *)
(* candidate c, `ret` is the PyResult returned.                            *)

Ok(v) == [tag |-> "Ok", val |-> v]
Err(e) == [tag |-> "Err", val |-> e]

\* compute_distances
compute_distances(sequence) ==
    LET n == Len(sequence)
        pairs == {p \in (0..(n - 1)) \X (0..(n - 1)) : p[1] < p[2]}
    IN  {dist(At(sequence, p[1]), At(sequence, p[2])) : p \in pairs}

\* the loop of should_accept_candidate at index i
RECURSIVE should_accept_loop(_, _, _, _, _)
should_accept_loop(candidate, distances, prev, ord, i) ==
    IF i >= ord - 1 THEN Some(TRUE)
    ELSE IF i >= Len(prev) THEN Panic                \* prev[i]
    ELSE IF dist(candidate, At(prev, i)) \in distances THEN Some(FALSE)
    ELSE should_accept_loop(candidate, distances, prev, ord, i + 1)

should_accept_candidate(candidate, distances, prev, ord) ==
    should_accept_loop(candidate, distances, prev, ord, 0)

\* an upper bound that leaves two candidates only
candidate_upper_bound_short(last) == last + 1

\* `2 * prev_last + 1`
candidate_upper_bound(last) == 2 * last + 1

\* slice::sort
RECURSIVE sort(_)
sort(seq) ==
    IF Len(seq) <= 1 THEN seq
    ELSE LET m == Min(Range(seq))
             k == Min({i \in 1..Len(seq) : seq[i] = m})
         IN  <<m>> \o sort(SubSeq(seq, 1, k - 1) \o SubSeq(seq, k + 1, Len(seq)))

prev_last(prev) == At(prev, Len(prev) - 1)

GenInit ==
    /\ order \in 0..MaxGenOrder
    /\ length = 0
    /\ call = "idle"
    /\ it = NoIter
    /\ acc = <<>>
    /\ results = [e \in EntryPoints |-> Unset]
    /\ NoRulerOp
    /\ NoStateOp

\* the call, down the recursion to the first level that has a loop
generate_golomb_ruler_improved ==
    /\ op = "none"
    /\ op' = "generate_golomb_ruler_improved"
    /\ IF order = 0 THEN
           /\ ret' = Err("PyValueError")
           /\ UNCHANGED <<st, arg>>
       ELSE IF order = 1 THEN
           /\ ret' = Ok(<<0>>)
           /\ UNCHANGED <<st, arg>>
       ELSE IF order = 2 THEN
           /\ ret' = Ok(<<0, 1>>)
           /\ UNCHANGED <<st, arg>>
       ELSE IF order = 3 THEN
           /\ ret' = Ok(<<0, 1, 3>>)
           /\ UNCHANGED <<st, arg>>
       ELSE
           /\ st' = <<0, 1, 3>>
           /\ arg' = [level |-> 4, c |-> prev_last(<<0, 1, 3>>)]
           /\ UNCHANGED ret
    /\ UNCHANGED <<travVars, rulerVars>>

\* one iteration of `for c in *prev_last..candidate_upper_bound + 1`
candidate_step ==
    /\ op = "generate_golomb_ruler_improved"
    /\ ret = Unset
    /\ LET prev == st
           c == arg.c
           accept == should_accept_candidate(c, compute_distances(prev), prev, arg.level)
           pushed == sort(Append(prev, c))
       IN  IF c >= candidate_upper_bound(prev_last(prev)) + 1 THEN
               \* the loop is over: Err, which the caller's unwrap() turns
               \* into an abort
               /\ ret' = IF arg.level = order THEN Err("PyBaseException") ELSE Panic
               /\ UNCHANGED <<st, arg>>
           ELSE IF \E i \in 1..Len(prev) : prev[i] = c THEN
               /\ arg' = [arg EXCEPT !.c = c + 1]
               /\ UNCHANGED <<st, ret>>
           ELSE IF accept = Panic THEN
               /\ ret' = Panic
               /\ UNCHANGED <<st, arg>>
           ELSE IF accept.val THEN
               /\ st' = pushed
               /\ IF arg.level = order
                     THEN ret' = Ok(pushed) /\ UNCHANGED arg
                     ELSE /\ arg' = [level |-> arg.level + 1, c |-> prev_last(pushed)]
                          /\ UNCHANGED ret
           ELSE
               /\ arg' = [arg EXCEPT !.c = c + 1]
               /\ UNCHANGED <<st, ret>>
    /\ UNCHANGED <<travVars, rulerVars, op>>

GenNext ==
    \/ generate_golomb_ruler_improved
    \/ candidate_step

GenSpec == GenInit /\ [][GenNext]_vars

-----------------------------------------------------------------------------
(* Properties *)

RECURSIVE Pow2(_)
Pow2(n) == IF n = 0 THEN 1 ELSE 2 * Pow2(n - 1)

RECURSIVE Binomial(_, _)
Binomial(n, k) ==
    IF k < 0 \/ k > n THEN 0
    ELSE IF k = 0 THEN 1
    ELSE Binomial(n - 1, k - 1) + Binomial(n - 1, k)

NoDuplicates(seq) == \A a, b \in 1..Len(seq) : seq[a] = seq[b] => a = b

\* every ruler of length len: any set of interior positions, then len
RulersOfLength(len) == {SortedSeq(S \cup {len}) : S \in SUBSET (1..(len - 1))}

\* every ruler of length len with ord marks, the implied 0 included
RulersOfOrderAndLength(ord, len) ==
    {SortedSeq(S \cup {len}) : S \in {T \in SUBSET (1..(len - 1)) : Cardinality(T) + 2 = ord}}

\* all pairwise differences among {0} and the marks are distinct
AllDistancesDistinct(marks) ==
    LET pts == {0} \cup Range(marks)
        pairs == {p \in pts \X pts : p[1] < p[2]}
    IN  Cardinality({p[2] - p[1] : p \in pairs}) = Cardinality(pairs)

StrictlyIncreasing(marks) ==
    /\ \A k \in 1..Len(marks) : marks[k] > 0
    /\ \A k \in 1..(Len(marks) - 1) : marks[k] < marks[k + 1]

Exhaustive == results["enumerate_rulers_with_length"]
Pruned == results["enumerate_pruned_rulers"]
PrunedRaw == results["enumerate_golomb_rulers_pruned_with_length"]
DepthLimited == results["enumerate_golomb_rulers_depth_with_length"]

\* C1: for every length >= 2 the exhaustive traversal returns exactly
\* 2^(length-1) rulers, pairwise distinct, one for every subset of the
\* interior positions 1..length-1.
C1_ExhaustiveComplete ==
    (length >= 2 /\ Exhaustive /= Unset) =>
        /\ IsSome(Exhaustive)
        /\ Len(Exhaustive.val) = Pow2(length - 1)
        /\ NoDuplicates(Exhaustive.val)
        /\ Range(Exhaustive.val) = RulersOfLength(length)

C1_Witness ==
    /\ length = MaxLength
    /\ IsSome(Exhaustive)
    /\ Len(Exhaustive.val) = Pow2(MaxLength - 1)

\* C2: for every length >= 2 and order >= 1, enumerate_pruned_rulers(order,
\* length) returns the same set of rulers as the rulers of
\* enumerate_rulers_with_length(length) whose order() is `order`, and as many.
C2_PrunedEqualsFiltered ==
    (length >= 2 /\ order >= 1 /\ Exhaustive /= Unset /\ Pruned /= Unset) =>
        /\ IsSome(Exhaustive)
        /\ IsSome(Pruned)
        /\ LET filtered == SelectSeq(Exhaustive.val, LAMBDA r : ruler_order(r) = order)
           IN  /\ Range(Pruned.val) = Range(filtered)
               /\ Len(Pruned.val) = Len(filtered)

C2_Witness ==
    /\ length = MaxLength
    /\ order = 4
    /\ IsSome(Exhaustive)
    /\ IsSome(Pruned)
    /\ Len(Pruned.val) > 1
    /\ Len(Pruned.val) < Len(Exhaustive.val)

\* C3: for length >= 2 and 2 <= order <= length + 1, enumerate_pruned_rulers
\* returns exactly C(length-1, order-2) rulers, none twice and none of that
\* order and length left out; for order 2 it is the single ruler [length].
C3_PrunedCount ==
    (length >= 2 /\ order >= 2 /\ order <= length + 1 /\ Pruned /= Unset) =>
        /\ IsSome(Pruned)
        /\ Len(Pruned.val) = Binomial(length - 1, order - 2)
        /\ NoDuplicates(Pruned.val)
        /\ Range(Pruned.val) = RulersOfOrderAndLength(order, length)
        /\ order = 2 => Pruned.val = << <<length>> >>

C3_Witness ==
    /\ length = MaxLength
    /\ order = 3
    /\ IsSome(Pruned)
    /\ Len(Pruned.val) = MaxLength - 1

\* C8: for every order and every length >= 2, each ruler the cardinality-
\* pruned traversal yields that passes the full Golomb verifier is also
\* yielded by the depth-limited traversal.
C8_DepthKeepsGolomb ==
    (length >= 2 /\ PrunedRaw /= Unset /\ DepthLimited /= Unset) =>
        /\ IsSome(PrunedRaw)
        /\ IsSome(DepthLimited)
        /\ \A r \in Range(PrunedRaw.val) :
               is_golomb_ruler(r) => r \in Range(DepthLimited.val)

C8_Witness ==
    /\ IsSome(PrunedRaw)
    /\ IsSome(DepthLimited)
    /\ \E r \in Range(PrunedRaw.val) :
           is_golomb_ruler(r) /\ Len(r) >= 3 /\ r \in Range(DepthLimited.val)
    /\ \E r \in Range(PrunedRaw.val) : r \notin Range(DepthLimited.val)

\* C9: every ruler returned by enumerate_golomb_rulers_pruned_with_length(
\* order, length) passes the full Golomb verifier.
C9_PrunedWithLengthAllGolomb ==
    IsSome(PrunedRaw) => \A r \in Range(PrunedRaw.val) : is_golomb_ruler(r)

\* C10: for every length >= 0 each ruler returned by
\* enumerate_rulers_with_length(length) has length() = length; for length 0
\* the result is the single empty ruler from_id(0), for length 1 the single
\* ruler from_id(1) = [1].
C10_ExhaustiveLengths ==
    Exhaustive /= Unset =>
        /\ IsSome(Exhaustive)
        /\ \A r \in Range(Exhaustive.val) : ruler_length(r) = length
        /\ length = 0 => /\ Exhaustive.val = <<from_id(usize_zero)>>
                         /\ Exhaustive.val = << <<>> >>
        /\ length = 1 => /\ Exhaustive.val = <<from_id(usize_one)>>
                         /\ Exhaustive.val = << <<1>> >>

C10_Witness ==
    /\ length = 1
    /\ IsSome(Exhaustive)
    /\ Len(Exhaustive.val) = 1

\* C4: for every ruler with strictly increasing positive marks and length
\* <= 64 (the empty ruler and [1] included) to_id is present and from_id of
\* it has exactly the marks of the ruler.
C4_DecodeEncode ==
    (src = "ruler" /\ StrictlyIncreasing(ruler.val) /\ ruler_length(ruler.val) <= 64) =>
        /\ rid /= Unset => IsSome(rid)
        /\ decoded /= Unset => decoded.val = ruler.val
        /\ (ruler.val \in {<<>>, <<1>>} /\ rid /= Unset) =>
               rid.val = (IF ruler.val = <<>> THEN {} ELSE {0})

C4_Witness ==
    /\ src = "ruler"
    /\ ruler_length(ruler.val) = 64
    /\ Len(ruler.val) >= 3
    /\ decoded = ruler

\* C5: for every id in the representable range to_id(from_id(id)) is present
\* and equals id; so no other id decodes to the same ruler.
C5_EncodeDecode ==
    (src = "id" /\ rid /= Unset) =>
        /\ rid = Some(id)
        /\ \A other \in SUBSET BitPool : from_id(other) = ruler.val => other = id

C5_Witness ==
    /\ src = "id"
    /\ (UsizeBits - 1) \in id
    /\ Cardinality(id) >= 3
    /\ rid = Some(id)

\* C6: to_id returns absence exactly when the length of the ruler is greater
\* than 64; for every ruler of length <= 64, 64 itself included, it returns a
\* value and no step of its arithmetic overflows.
C6_AbsentIffTooLong ==
    rid /= Unset =>
        /\ rid.tag \in {"Some", "None"}
        /\ rid = None <=> ruler_length(ruler.val) > 64

C6_Witness ==
    /\ src = "ruler"
    /\ ruler_length(ruler.val) = 64
    /\ Len(ruler.val) >= 2
    /\ IsSome(rid)
    /\ 63 \in rid.val

\* C7: is_golomb_ruler is true exactly when all pairwise absolute differences
\* among {0} and the marks are distinct; rulers of no or one mark are
\* accepted, [1, 2] is rejected and [1, 3, 7] is accepted.
C7_VerifierExact ==
    golomb /= Unset =>
        /\ golomb.val <=> AllDistancesDistinct(ruler.val)
        /\ Len(ruler.val) <= 1 => golomb.val
        /\ ruler.val = <<1, 2>> => ~golomb.val
        /\ ruler.val = <<1, 3, 7>> => golomb.val

C7_Witness ==
    /\ ruler = Some(<<1, 3, 7>>)
    /\ golomb = Some(TRUE)

EnumerateRulers == results["enumerate_rulers"]
WithOrder == results["enumerate_rulers_with_order"]

\* the positions of seq that hold a ruler of length len
PositionsOfLength(seq, len) == {k \in 1..Len(seq) : ruler_length(seq[k]) = len}

\* C11: enumerate_rulers(max_length) returns, for each length L from 2 to
\* max_length in increasing order of L, all 2^(L-1) rulers of length L as
\* one contiguous block; no ruler of length 0 or 1; nothing when
\* max_length < 2.
C11_BlocksByLength ==
    EnumerateRulers /= Unset =>
        /\ IsSome(EnumerateRulers)
        /\ LET v == EnumerateRulers.val
           IN  /\ length < 2 => v = <<>>
               /\ \A k \in 1..Len(v) : ruler_length(v[k]) \in 2..length
               /\ \A k \in 1..(Len(v) - 1) : ruler_length(v[k]) <= ruler_length(v[k + 1])
               /\ \A L \in 2..length :
                      /\ Cardinality(PositionsOfLength(v, L)) = Pow2(L - 1)
                      /\ {v[k] : k \in PositionsOfLength(v, L)} = RulersOfLength(L)

C11_Witness ==
    /\ length = MaxLength
    /\ IsSome(EnumerateRulers)
    /\ Len(EnumerateRulers.val) = Pow2(MaxLength) - 2

\* C12: enumerate_rulers_with_order(order, length) returns exactly the
\* rulers of the exhaustive traversal for `length` whose order is `order`,
\* the same set of rulers as enumerate_pruned_rulers(order, length).
C12_WithOrderEqualsPruned ==
    (length >= 2 /\ order >= 2 /\ IsSome(WithOrder)) =>
        /\ Range(WithOrder.val) = RulersOfOrderAndLength(order, length)
        /\ IsSome(Pruned) => Range(WithOrder.val) = Range(Pruned.val)
        /\ IsSome(Exhaustive) =>
               Range(WithOrder.val) = {r \in Range(Exhaustive.val) : ruler_order(r) = order}

\* C13: from_id(0) is the empty ruler (order 1) and from_id(1) is [1]; for
\* id >= 2 the ruler has length floor(log2(id)) + 1, and interior mark i + 1
\* is present exactly when bit i of id, below the highest set bit, is set.
C13_FromIdBits ==
    (src = "id" /\ ruler /= Unset) =>
        /\ IsSome(ruler)
        /\ id = usize_zero => (ruler.val = <<>> /\ ruler_order(ruler.val) = 1)
        /\ id = usize_one => ruler.val = <<1>>
        /\ (id /= usize_zero /\ id /= usize_one) =>
               /\ StrictlyIncreasing(ruler.val)
               /\ ruler_length(ruler.val) = Max(id) + 1
               /\ \A i \in 0..(Max(id) - 1) :
                      (i + 1 \in Range(ruler.val)) <=> (i \in id)

C13_Witness ==
    /\ src = "id"
    /\ IsSome(ruler)
    /\ Max(id \cup {0}) >= 3
    /\ \E i \in 0..(Max(id) - 1) : i \in id
    /\ \E i \in 0..(Max(id) - 1) : i \notin id

C15_RulerOrder1Exact ==
    (op = "is_golomb_ruler_order_1" /\ Len(ruler.val) >= 1) =>
        LET marks == ruler.val
            L == ruler_length(marks)
        IN  /\ ret \in {Some(TRUE), Some(FALSE)}
            /\ ret = Some(FALSE) <=>
                   \E k \in 1..(Len(marks) - 1) : (L - marks[k]) \in Range(marks)
            /\ (src = "id" /\ id = {1, 3}) => ret = Some(FALSE)
            /\ (src = "id" /\ id = {0, 3}) => ret = Some(TRUE)

C15_Witness ==
    /\ op = "is_golomb_ruler_order_1"
    /\ src = "id"
    /\ id = {1, 3}
    /\ ruler = Some(<<2, 4>>)
    /\ ret = Some(FALSE)

\* C20 as stated: backtrack applied to a state in which every bit is
\* already set returns "no next state" rather than a state.
C20_BacktrackAbsent ==
    (op = "backtrack" /\ all(st)) => ret = None

\* C20, amended: backtrack always returns a state; applied to a state in
\* which every bit is set it returns the state of the same length with every
\* bit cleared.  "No next state" is returned by its callers next(length) and
\* pruned_propose_next(order), which test for the all-set state of full
\* length before they would call backtrack.
C20_BacktrackWrapsCallersStop ==
    all(st) =>
        /\ op = "backtrack" => ret = Returned([k \in 1..Len(st) |-> FALSE])
        /\ (op = "next" /\ Len(st) >= 1 /\ arg.length = Len(st) + 1) => ret = None
        /\ (op = "pruned_propose_next" /\ Len(st) >= 1) => ret = None

C20_Witness ==
    /\ op = "backtrack"
    /\ Len(st) = MaxBits
    /\ all(st)
    /\ ret = Returned([k \in 1..MaxBits |-> FALSE])

IteratorKinds == {"RulerIterator", "GolombRulerPrunedIterator", "GolombRulerDepthIterator"}

\* C16: every ruler yielded by any of the three traversals for a length
\* L >= 2 has strictly increasing positive marks whose last mark is L, and
\* its order() is total_marks() of the state it was converted from.
C16_YieldedRulersWellFormed ==
    (call /= "idle" /\ it.kind \in IteratorKinds /\ Len(acc) >= 1) =>
        /\ length >= 2
        /\ \A k \in 1..Len(acc) :
               /\ StrictlyIncreasing(acc[k])
               /\ ruler_length(acc[k]) = length
        /\ acc[Len(acc)] = to_ruler(it.state)
        /\ ruler_order(acc[Len(acc)]) = total_marks(it.state)
        /\ ruler_order(acc[Len(acc)]) = count_marks(it.state) + 2

C16_Witness ==
    /\ call = "enumerate_golomb_rulers_depth_with_length"
    /\ it.kind = "GolombRulerDepthIterator"
    /\ length = MaxLength
    /\ Len(acc) >= 2
    /\ ruler_order(acc[Len(acc)]) = 4

\* the marks of a ruler before its last one
Interior(marks) == SubSeq(marks, 1, Len(marks) - 1)

\* a is lexicographically less than b
LexLess(a, b) ==
    \E i \in 1..Len(b) :
        /\ Len(a) >= i - 1
        /\ \A j \in 1..(i - 1) : a[j] = b[j]
        /\ (Len(a) = i - 1 \/ a[i] < b[i])

\* the value of a bit vector read as a binary number, bit index 0 most
\* significant
RECURSIVE BinaryValue(_)
BinaryValue(s) ==
    IF Len(s) = 0 THEN 0
    ELSE 2 * BinaryValue(SubSeq(s, 1, Len(s) - 1)) + (IF s[Len(s)] THEN 1 ELSE 0)

\* the bit vector a ruler of length >= 1 was converted from
StateOfRuler(marks) ==
    [k \in 1..(ruler_length(marks) - 1) |-> k \in Range(marks)]

PrunedRunning == call /= "idle" /\ it.kind = "GolombRulerPrunedIterator"

\* C18 as stated: for any two consecutive yields of the cardinality-pruned
\* traversal, the sorted list of marked interior positions of the later
\* ruler is lexicographically greater than that of the earlier ruler.
C18_PositionListsAscending ==
    PrunedRunning =>
        \A k \in 1..(Len(acc) - 1) : LexLess(Interior(acc[k]), Interior(acc[k + 1]))

\* C18, amended: the cardinality-pruned traversal yields its states in
\* ascending order of the bit vector (read from interior position 1 on,
\* cleared before set): for any two consecutive yields the later state's
\* binary value is greater, so the sorted list of marked interior positions
\* of the later ruler is lexicographically smaller than that of the earlier.
C18_BitVectorsAscending ==
    PrunedRunning =>
        \A k \in 1..(Len(acc) - 1) :
            /\ BinaryValue(StateOfRuler(acc[k])) < BinaryValue(StateOfRuler(acc[k + 1]))
            /\ LexLess(Interior(acc[k + 1]), Interior(acc[k]))

C18_Witness ==
    /\ PrunedRunning
    /\ length = MaxLength
    /\ order = 4
    /\ Len(acc) = Binomial(MaxLength - 1, 2)

\* C19: in the exhaustive traversal for a length L >= 2 the k-th ruler
\* yielded, k = 0 .. 2^(L-1) - 1, is the one whose state read as a binary
\* number (bit index 0 most significant) is k; the first yield is [L] and the
\* last has every interior position marked.
C19_ExhaustiveCountsInBinary ==
    /\ (call = "enumerate_rulers_with_length" /\ it.kind = "RulerIterator") =>
           /\ \A k \in 1..Len(acc) :
                  /\ ruler_length(acc[k]) = length
                  /\ BinaryValue(StateOfRuler(acc[k])) = k - 1
           /\ Len(acc) >= 1 => BinaryValue(it.state) = Len(acc) - 1
    /\ (length >= 2 /\ Exhaustive /= Unset) =>
           /\ IsSome(Exhaustive)
           /\ LET v == Exhaustive.val
              IN  /\ Len(v) = Pow2(length - 1)
                  /\ \A k \in 1..Len(v) : BinaryValue(StateOfRuler(v[k])) = k - 1
                  /\ v[1] = <<length>>
                  /\ v[Len(v)] = [k \in 1..length |-> k]

C19_Witness ==
    /\ length = MaxLength
    /\ IsSome(Exhaustive)
    /\ Len(Exhaustive.val) = Pow2(MaxLength - 1)
    /\ Exhaustive.val[Len(Exhaustive.val)] = [k \in 1..MaxLength |-> k]

\* the most rulers a traversal for length L can yield
MostYields == Pow2(IF length >= 1 THEN length - 1 ELSE 0)

\* a call is draining one of the three iterators
Draining == call /= "idle" /\ it.kind \in IteratorKinds

\* what the next pull of the iterator being drained returns
NextPull ==
    IF it.kind = "RulerIterator" THEN RulerIterator_next_state(it)
    ELSE IF it.kind = "GolombRulerPrunedIterator" THEN GolombRulerPrunedIterator_next_state(it)
    ELSE GolombRulerDepthIterator_next_state(it)

\* C17: for every length >= 2 and every order >= 0 each of the three
\* traversals reaches end-of-sequence after finitely many pulls, and every
\* single pull terminates.  While a traversal is drained the next pull has a
\* result, a state or end-of-sequence; every pull either ends the traversal
\* and returns the collected rulers or adds one ruler, of a binary value
\* greater than the last, to at most 2^(length-1) rulers: so at most
\* 2^(length-1) + 1 pulls are made.
C17_TraversalsEnd ==
    /\ [](Draining =>
              /\ Len(acc) <= MostYields
              /\ IsSome(NextPull) \/ NextPull = None)
    /\ [][Draining =>
              \/ /\ call' = "idle"
                 /\ results'[call] = Some(acc)
              \/ /\ call' = call
                 /\ it'.kind = it.kind
                 /\ Len(acc') = Len(acc) + 1
                 /\ Len(acc) >= 1 => BinaryValue(it.state) < BinaryValue(it'.state)]_vars

C17_Witness ==
    /\ call = "idle"
    /\ length = MaxLength
    /\ order = 4
    /\ IsSome(Exhaustive)
    /\ IsSome(Pruned)
    /\ IsSome(PrunedRaw)
    /\ IsSome(DepthLimited)
    /\ Len(DepthLimited.val) >= 1

\* s has a set bit
HasSet(s) == \E k \in 1..Len(s) : s[k]

\* the rightmost run of set bits of s: its last and first position (from 1)
RunEnd(s) == Max({k \in 1..Len(s) : s[k]})
RunStart(s) == Min({a \in 1..RunEnd(s) : \A k \in a..RunEnd(s) : s[k]})
RunLength(s) == RunEnd(s) - RunStart(s) + 1

\* the last bit of s is cleared and there is a cleared bit to the left of
\* its rightmost run of set bits
JumpBackPre(s) ==
    /\ Len(s) >= 1
    /\ ~s[Len(s)]
    /\ HasSet(s)
    /\ RunStart(s) > 1

\* the states of the length of s that follow s in the order of the bit
\* vectors (binary value, bit index 0 most significant)
Later(s) == {x \in BitVectors(Len(s)) : BinaryValue(x) > BinaryValue(s)}

\* the element of the non-empty set S of states that comes first
First(S) == CHOOSE x \in S : \A y \in S : BinaryValue(x) <= BinaryValue(y)

\* the states after s with as many set bits as s
LaterSameCount(s) == {x \in Later(s) : count_marks(x) = count_marks(s)}

\* add_mark applied n times
RECURSIVE AddMarks(_, _)
AddMarks(s, n) == IF n = 0 THEN s ELSE AddMarks(add_mark(s).val, n - 1)

C22_JumpBackNeverWraps ==
    (op = "pruned_propose_next" /\ pruned_propose_branch(st, arg.order) = "jump_back") =>
        /\ arg.order >= 2
        /\ JumpBackPre(st)
        /\ ret = Some(jump_back(st))
        /\ BinaryValue(ret.val) > BinaryValue(st)

C22_Witness ==
    /\ op = "pruned_propose_next"
    /\ pruned_propose_branch(st, arg.order) = "jump_back"
    /\ Len(st) = MaxBits
    /\ RunLength(st) >= 2
    /\ ret = Some(jump_back(st))

\* C23: every state returned by next_pruned(order, length), from the
\* initial state of the traversal or from any ruler given to
\* GolombRuler::next_pruned, with length >= 2, has exactly length - 1 bits
\* and total_marks() = order; a proposal with another number of marks is
\* never returned.
C23_NextPrunedReturnsOrder ==
    /\ (op = "next_pruned" /\ arg.length >= 2) =>
           /\ IsSome(ret) \/ ret = None
           /\ IsSome(ret) =>
                  /\ Len(ret.val) = arg.length - 1
                  /\ total_marks(ret.val) = arg.order
    /\ (op = "GolombRuler_next_pruned" /\ arg.length >= 2) =>
           /\ IsSome(ret) \/ ret = None
           /\ IsSome(ret) =>
                  /\ ruler_length(ret.val) = arg.length
                  /\ ruler_order(ret.val) = arg.order
                  /\ Len(to_state(ret.val).val) = arg.length - 1
                  /\ total_marks(to_state(ret.val).val) = arg.order

\* a state given to next_pruned whose first proposal has another number of
\* marks than the state returned
C23_Witness ==
    /\ op = "next_pruned"
    /\ arg.length = MaxBits + 1
    /\ arg.order = 4
    /\ Len(st) = MaxBits
    /\ IsSome(ret)
    /\ total_marks(ret.val) = 4
    /\ IsSome(pruned_propose_next(st, 4))
    /\ total_marks(pruned_propose_next(st, 4).val) /= 4

\* C24: for every order and length >= 2 the sequence the depth-limited
\* traversal yields is exactly the subsequence of the yields of the
\* cardinality-pruned traversal that pass is_golomb_ruler_order_1, in the
\* same order: no yielded ruler fails the check, no passing one is skipped.
C24_DepthIsFilteredPruned ==
    (length >= 2 /\ PrunedRaw /= Unset /\ DepthLimited /= Unset) =>
        /\ IsSome(PrunedRaw)
        /\ IsSome(DepthLimited)
        /\ DepthLimited.val =
               SelectSeq(PrunedRaw.val,
                         LAMBDA r : is_golomb_ruler_order_1(to_state(r).val))

C24_Witness ==
    /\ length = MaxLength
    /\ IsSome(PrunedRaw)
    /\ IsSome(DepthLimited)
    /\ Len(DepthLimited.val) >= 2
    /\ Len(DepthLimited.val) < Len(PrunedRaw.val)
    /\ \E k \in 1..(Len(PrunedRaw.val) - 2) :
           /\ ~is_golomb_ruler_order_1(to_state(PrunedRaw.val[k]).val)
           /\ ~is_golomb_ruler_order_1(to_state(PrunedRaw.val[k + 1]).val)
           /\ is_golomb_ruler_order_1(to_state(PrunedRaw.val[k + 2]).val)

\* C25 as stated: to_state and to_ruler are mutually inverse: for every
\* state s, to_state(to_ruler(s)) = s and len(s) = to_ruler(s).length() - 1;
\* and for every ruler r, to_ruler(to_state(r)) has the same marks as r.
C25_MutuallyInverse ==
    /\ op = "to_ruler_to_state" =>
           /\ ret = Some(st)
           /\ Len(st) = ruler_length(arg.ruler) - 1
    /\ op = "to_state_to_ruler" => ret = Some(arg.ruler)

\* C25, amended: for every state s, to_state(to_ruler(s)) = s and
\* len(s) = to_ruler(s).length() - 1; and for every ruler r with at least
\* one mark, its marks strictly increasing and positive,
\* to_ruler(to_state(r)) has the same marks as r.  The ruler without marks
\* has the empty state, whose ruler is [1].
C25_InverseOnRulersWithMarks ==
    /\ op = "to_ruler_to_state" =>
           /\ ret = Some(st)
           /\ Len(st) = ruler_length(arg.ruler) - 1
    /\ (op = "to_state_to_ruler" /\ Len(arg.ruler) >= 1 /\ StrictlyIncreasing(arg.ruler)) =>
           ret = Some(arg.ruler)
    /\ (op = "to_state_to_ruler" /\ arg.ruler = <<>>) => ret = Some(<<1>>)

C25_Witness ==
    /\ op = "to_state_to_ruler"
    /\ Len(arg.ruler) = 3
    /\ ruler_length(arg.ruler) = MaxBits + 1
    /\ ret = Some(arg.ruler)

\* the differences of every two marks of the sequence are pairwise distinct
DistinctDifferences(seq) ==
    \A i, j, k, l \in 1..Len(seq) :
        (i < j /\ k < l /\ seq[j] - seq[i] = seq[l] - seq[k]) => (i = k /\ j = l)

\* C26: for every order >= 1 generate_golomb_ruler_improved(order) finds an
\* acceptable candidate within its range [last, 2 * last + 1], so the
\* "Implementation Error" outcome is unreachable; the sequence returned
\* starts at 0, is strictly increasing, has exactly `order` marks and has
\* pairwise distinct differences.
C26_ImprovedFindsCandidate ==
    (op = "generate_golomb_ruler_improved" /\ order >= 1) =>
        /\ ret = Unset =>
               /\ arg.c <= candidate_upper_bound(prev_last(st))
               /\ \E c \in arg.c..candidate_upper_bound(prev_last(st)) :
                      /\ \A i \in 1..Len(st) : st[i] /= c
                      /\ should_accept_candidate(c, compute_distances(st), st, arg.level) = Some(TRUE)
        /\ ret /= Unset =>
               /\ ret.tag = "Ok"
               /\ LET v == ret.val
                  IN  /\ Len(v) = order
                      /\ v[1] = 0
                      /\ \A k \in 1..(Len(v) - 1) : v[k] < v[k + 1]
                      /\ DistinctDifferences(v)

C26_Witness ==
    /\ op = "generate_golomb_ruler_improved"
    /\ order = MaxGenOrder
    /\ ret /= Unset
    /\ ret.tag = "Ok"
    /\ Len(ret.val) = MaxGenOrder

GolombAll == results["enumerate_golomb_rulers"]
GolombWithLength == results["enumerate_golomb_rulers_with_length"]
GolombPruned == results["enumerate_golomb_rulers_pruned"]

\* C27: for every order >= 2 and max_length >= 2,
\* enumerate_golomb_rulers_pruned(order, max_length) returns the same set of
\* rulers as enumerate_golomb_rulers(order, max_length).
C27_PrunedGolombEqualsExhaustive ==
    (order >= 2 /\ length >= 2 /\ GolombAll /= Unset /\ GolombPruned /= Unset) =>
        /\ IsSome(GolombAll)
        /\ IsSome(GolombPruned)
        /\ Range(GolombPruned.val) = Range(GolombAll.val)

\* C29: for every order >= 0 and every length or max_length >= 0 each
\* enumeration entry point returns a possibly empty list of rulers and never
\* aborts with an unsigned underflow or an index out of range.
C29_EntryPointsNeverAbort ==
    \A e \in EntryPoints : results[e] /= Unset => IsSome(results[e])

\* C28: once a traversal has signalled end-of-sequence its state is left
\* unchanged by that pull, and every later pull on the same iterator also
\* signals end-of-sequence: no ruler is yielded after the end.
C28_EndIsFinal ==
    [][/\ ret' = None => it' = it
       /\ ret = None => (ret' = None /\ it' = it /\ acc' = acc)]_vars

C28_Witness ==
    /\ op = "Iterator::next"
    /\ it.kind = "GolombRulerDepthIterator"
    /\ ret = None
    /\ arg.after_end = MaxPullsAfterEnd
    /\ Len(acc) >= 2

\* the ids from 2^(L-1) to 2^L - 1, each as the set of its set bits
IdsOfLength(L) == {S \cup {L - 1} : S \in SUBSET (0..(L - 2))}

\* C30: the ids are dense per length: for every length L >= 2 the ids
\* to_id(r) of the rulers r the exhaustive traversal for L yields are
\* exactly the integers from 2^(L-1) to 2^L - 1, each occurring once.
C30_IdsDensePerLength ==
    (length >= 2 /\ Exhaustive /= Unset) =>
        /\ IsSome(Exhaustive)
        /\ LET v == Exhaustive.val
               ids == {to_id(v[k]) : k \in 1..Len(v)}
           IN  /\ ids = {Some(x) : x \in IdsOfLength(length)}
               /\ Len(v) = Cardinality(ids)

C30_Witness ==
    /\ length = MaxLength
    /\ IsSome(Exhaustive)
    /\ to_id(Exhaustive.val[1]) = Some({MaxLength - 1})
    /\ to_id(Exhaustive.val[Len(Exhaustive.val)]) = Some(0..(MaxLength - 1))

\* C31: the two implementations of the depth-1 check agree: for every id >= 0
\* the ruler version from_id(id).is_golomb_ruler_order_1() and the state
\* version from_id(id).to_state().is_golomb_ruler_order_1() return the same
\* boolean, and neither call fails.
C31_Order1VersionsAgree ==
    src = "id" =>
        /\ op = "is_golomb_ruler_order_1" => ret \in {Some(TRUE), Some(FALSE)}
        /\ op = "to_state.is_golomb_ruler_order_1" =>
               /\ ret \in {Some(TRUE), Some(FALSE)}
               /\ ret = arg.ruler_version

\* b has as many bits as a and a greater binary value
SameLengthGreater(a, b) == Len(b) = Len(a) /\ BinaryValue(b) > BinaryValue(a)

\* C32: in every traversal with length >= 2 and order >= 2 each transition
\* applied to a state of full length (flip-last and backtrack in next;
\* add_mark, backtrack and jump_back in pruned_propose_next) returns a state
\* of the same length with a strictly greater binary value (bit index 0 most
\* significant), and so does every step from one yield to the next (next,
\* next_pruned; next_golomb_depth_1 repeats next_pruned); no step aborts.
\* Checked for every state of full length, a superset of the states a
\* traversal visits.
C32_TransitionsIncrease ==
    /\ (/\ op = "next"
        /\ arg.length >= 2
        /\ Len(st) = arg.length - 1) =>
           /\ IsSome(ret) \/ ret = None
           /\ IsSome(ret) => SameLengthGreater(st, ret.val)
    /\ (/\ op = "pruned_propose_next"
        /\ arg.order >= 2
        /\ Len(st) >= 1) =>
           /\ IsSome(ret) \/ ret = None
           /\ IsSome(ret) => SameLengthGreater(st, ret.val)
    /\ (/\ op = "next_pruned"
        /\ arg.order >= 2
        /\ arg.length >= 2
        /\ Len(st) = arg.length - 1) =>
           /\ IsSome(ret) \/ ret = None
           /\ IsSome(ret) => SameLengthGreater(st, ret.val)

C32_Witness ==
    /\ op = "next_pruned"
    /\ arg.order >= 2
    /\ Len(st) = MaxBits
    /\ arg.length = MaxBits + 1
    /\ pruned_propose_branch(st, arg.order) = "jump_back"
    /\ IsSome(ret)
    /\ BinaryValue(ret.val) > BinaryValue(jump_back(st))

=============================================================================
